---------------------------- MODULE Spec2Model ----------------------------
(* Model of the JAX scan_map kernel of toast                                *)
(* (src/src/toast/ops/kernels/jax_kernels/scan_map.py).                     *)
(*                                                                          *)
(* Arrays are functions over 0..n-1, as in the source.  Floating point      *)
(* values are integer valued floats with a mantissa of MantBits bits and    *)
(* round-to-nearest-even, so that every product, sum and difference rounds  *)
(* the way an IEEE operation does (float64 has 53 bits; the model scales    *)
(* the mantissa down so that rounding happens on small numbers).            *)
EXTENDS Integers, FiniteSets, Sequences, TLC

\* ------------------------------------------------------------------ bounds
NSamp == 4        \* samples per row of the packed arrays
NRows == 2        \* rows of the packed arrays
MantBits == 4     \* mantissa bits of the modelled floating point format

Samples == 0..(NSamp - 1)
Rows == 0..(NRows - 1)
\* Python's None for an absent array: the array without elements
None == [i \in {} |-> 0]

\* ----------------------------------------------------------------- helpers
Range0(n) == 0..(n - 1)
Size(a) == Cardinality(DOMAIN a)
Min(a, b) == IF a < b THEN a ELSE b
Max(a, b) == IF a > b THEN a ELSE b
Abs(x) == IF x < 0 THEN -x ELSE x

RECURSIVE Pow2(_)
Pow2(k) == IF k <= 0 THEN 1 ELSE 2 * Pow2(k - 1)

\* spacing of the floats around magnitude m: the least power of two u with
\* m < 2^MantBits * u
RECURSIVE UlpFrom(_, _)
UlpFrom(m, u) == IF m < Pow2(MantBits) * u THEN u ELSE UlpFrom(m, 2 * u)
Ulp(x) == UlpFrom(Abs(x), 1)

\* round to nearest float, ties to even mantissa
FlRound(x) ==
    LET m == Abs(x)
        u == Ulp(x)
        q == m \div u
        r == m % u
        rm == IF 2 * r < u THEN q * u
              ELSE IF 2 * r > u THEN (q + 1) * u
              ELSE (IF q % 2 = 0 THEN q ELSE q + 1) * u
    IN  IF x < 0 THEN -rm ELSE rm
IsFloat(x) == FlRound(x) = x

FMul(a, b) == FlRound(a * b)
FAdd(a, b) == FlRound(a + b)
FSub(a, b) == FlRound(a - b)

\* jnp.sum over an axis of length n, reduced left to right
RECURSIVE FSum(_, _)
FSum(f, n) == IF n <= 0 THEN 0 ELSE FAdd(FSum(f, n - 1), f[n - 1])

\* JAX indexing arr[i] of an axis of length n: a negative index counts from
\* the end, an out-of-bounds index is clamped
JaxIndex(n, i) == IF i < 0 THEN Max(i + n, 0) ELSE Min(i, n - 1)

\* numpy broadcasting of two axis lengths
BroadcastOK(a, b) == a = b \/ a = 1 \/ b = 1
BroadcastLen(a, b) == IF a = 1 THEN b ELSE a

\* ------------------------------------------------------------------- state
VARIABLES
    mapdata,          \* flat local map buffer (mapdata.data)
    nmap,             \* number of map components
    npix_submap,      \* map_dist._n_pix_submap
    global2local,     \* map_dist._glob2loc
    det_data,         \* packed timestream det_data[row][sample]
    det_data_index,   \* detector -> row of det_data
    pixels,           \* packed pixel indices pixels[row][sample]
    pixels_index,     \* detector -> row of pixels
    weights,          \* packed weights, [row][sample] or [row][sample][comp]
    weights_ndim,     \* weights.ndim: 2 (one scalar per sample) or 3
    weight_index,     \* detector -> row of weights, or None
    intervals,        \* [first |-> array, last |-> array], inclusive bounds
    data_scale,
    should_zero,
    should_subtract,
    pc,               \* "ready", "done", "error", "undone"
    det_data_orig,    \* the timestream before the first invocation
    one_data,         \* timestream of the one-interval-per-invocation run
    one_k             \* intervals already scanned in one_data

inputs == <<mapdata, nmap, npix_submap, global2local, det_data_index, pixels,
            pixels_index, weights, weights_ndim, weight_index, intervals,
            data_scale, should_zero, det_data_orig>>
vars == <<inputs, should_subtract, det_data, pc, one_data, one_k>>

\* ------------------------------------------------------------ JaxIntervals
\* toast.jax.intervals: the padded index block of an interval set.  Position
\* j of interval k reads index start+j, clamped to the last real index; mask
\* is TRUE on the padded positions.  ends is exclusive.
JaxIntervals(starts, ends, max_length) ==
    [indices |-> [k \in DOMAIN starts |-> [j \in Range0(max_length) |->
                     Min(starts[k] + j, ends[k] - 1)]],
     mask    |-> [k \in DOMAIN starts |-> [j \in Range0(max_length) |->
                     starts[k] + j >= ends[k]]]]

\* data[index, intervals]: one padded slice per (detector, interval)
JaxIntervalsGet(data, index, ivs) ==
    [d \in DOMAIN index |-> [k \in DOMAIN ivs.indices |->
        [j \in DOMAIN ivs.indices[k] |-> data[index[d]][ivs.indices[k][j]]]]]

\* data[index, intervals] = value: only the real positions are written
JaxIntervalsSet(data, index, ivs, value) ==
    [r \in DOMAIN data |-> [s \in DOMAIN data[r] |->
        LET hit == {t \in (DOMAIN index) \X (DOMAIN ivs.indices)
                        \X (IF DOMAIN ivs.indices = {} THEN {}
                            ELSE DOMAIN ivs.indices[0]) :
                      /\ index[t[1]] = r
                      /\ ~ivs.mask[t[2]][t[3]]
                      /\ ivs.indices[t[2]][t[3]] = s}
        IN  IF hit = {} THEN data[r][s]
            ELSE LET t == CHOOSE t \in hit : TRUE
                 IN  value[t[1]][t[2]][t[3]]]]

\* INTERVALS_JAX.compute_max_intervals_length: length of the longest interval
RECURSIVE MaxLenUpTo(_, _)
MaxLenUpTo(ivs, n) ==
    IF n <= 0 THEN 0
    ELSE Max(MaxLenUpTo(ivs, n - 1), ivs.last[n - 1] - ivs.first[n - 1] + 1)
compute_max_intervals_length(ivs) == MaxLenUpTo(ivs, Size(ivs.first))

\* ------------------------------------------------------------------ kernel
global_to_local(global_pixels, npix, g2l) ==
    LET quotient  == [j \in DOMAIN global_pixels |-> global_pixels[j] \div npix]
        remainder == [j \in DOMAIN global_pixels |-> global_pixels[j] % npix]
    IN  [local_submaps |-> [j \in DOMAIN global_pixels |->
                              IF global_pixels[j] < 0 THEN -1
                              ELSE g2l[JaxIndex(Size(g2l), quotient[j])]],
         local_pixels  |-> [j \in DOMAIN global_pixels |->
                              IF global_pixels[j] < 0 THEN -1
                              ELSE remainder[j]]]

\* jnp.reshape(mapdata, (-1, npix_submap, nmap))
ReshapeOK(md, npix, nm) ==
    npix > 0 /\ nm > 0 /\ Size(md) % (npix * nm) = 0
Reshape(md, npix, nm) ==
    [l \in Range0(Size(md) \div (npix * nm)) |-> [q \in Range0(npix) |->
        [c \in Range0(nm) |-> md[(l * npix + q) * nm + c]]]]

\* GatherMap whose mask forgets the test of the local submap
GatherMapNoSubmapTest(md3, npix, g2l, pix) ==
    LET loc == global_to_local(pix, npix, g2l)
        submap == loc.local_submaps
        subpix == loc.local_pixels
    IN  [j \in DOMAIN pix |-> [c \in DOMAIN md3[0][0] |->
            IF subpix[j] >= 0
            THEN md3[JaxIndex(Size(md3), submap[j])][JaxIndex(npix, subpix[j])][c]
            ELSE 0]]

\* valid_samples and the masked gather of the map values of each sample
GatherMap(md3, npix, g2l, pix) ==
    LET loc == global_to_local(pix, npix, g2l)
        submap == loc.local_submaps
        subpix == loc.local_pixels
        valid_samples == [j \in DOMAIN pix |-> subpix[j] >= 0 /\ submap[j] >= 0]
    IN  [j \in DOMAIN pix |-> [c \in DOMAIN md3[0][0] |->
            IF valid_samples[j]
            THEN md3[JaxIndex(Size(md3), submap[j])][JaxIndex(npix, subpix[j])][c]
            ELSE 0]]

\* an update that sums the gathered map values and leaves the weights out
UpdateTermIgnoresWeights(gathered, w, wnd, nm, scale) ==
    [j \in DOMAIN gathered |-> FMul(FSum(gathered[j], nm), scale)]

\* update = jnp.sum(mapdata * weights, axis=1) * data_scale, where mapdata is
\* (n, nmap) and weights is (n, nmap) when wnd = 2 and (n,) when wnd = 1; in
\* the second case numpy broadcasting aligns the n weights with the LAST
\* axis of mapdata
UpdateTerm(gathered, w, wnd, nm, scale) ==
    LET n == Size(gathered)
        len == IF wnd = 2 THEN nm ELSE BroadcastLen(nm, n)
        prod == [j \in DOMAIN gathered |-> [k \in Range0(len) |->
                    IF wnd = 2 THEN FMul(gathered[j][k], w[j][k])
                    ELSE FMul(gathered[j][IF nm = 1 THEN 0 ELSE k],
                              w[IF n = 1 THEN 0 ELSE k])]]
    IN  [j \in DOMAIN gathered |-> FMul(FSum(prod[j], len), scale)]

\* Combine that adds whatever should_subtract says
CombineAlwaysAdds(dd, update, zero, sub) ==
    [j \in DOMAIN dd |-> FAdd(IF zero THEN 0 ELSE dd[j], update[j])]

\* if should_zero: det_data = zeros; det_data -/+ update
Combine(dd, update, zero, sub) ==
    [j \in DOMAIN dd |->
        LET base == IF zero THEN 0 ELSE dd[j]
        IN  IF sub THEN FSub(base, update[j]) ELSE FAdd(base, update[j])]

scan_map_inner(md3, npix, g2l, pix, w, wnd, dd, scale, zero, sub) ==
    Combine(dd,
            UpdateTerm(GatherMap(md3, npix, g2l, pix), w, wnd,
                       Size(md3[0][0]), scale),
            zero, sub)

\* the shape of the weights of one (detector, interval) inside the kernel
InnerWeightsNdim(wi, wndim) == IF wi = None \/ wndim = 2 THEN 1 ELSE 2

\* the vmap over detectors needs equal leading axes
VmapOK(ddi, pi, wi) ==
    Size(pi) = Size(ddi) /\ (wi = None \/ Size(wi) = Size(ddi))

\* tracing scan_map_interval raises no error
TraceOK(md, nm, npix, ddi, pi, wi, wndim, max_length) ==
    /\ ReshapeOK(md, npix, nm)
    /\ VmapOK(ddi, pi, wi)
    /\ (InnerWeightsNdim(wi, wndim) = 1 => BroadcastOK(nm, max_length))

\* a batch that reads the pixels and the weights at the rows of det_data_index
new_det_data_interval_SameRow(md, nm, npix, g2l, dd, ddi, pix, pi, w, wi, wndim, ivs, max_length, scale, zero, sub) ==
    LET md3 == Reshape(md, npix, nm)
        pixels_interval == JaxIntervalsGet(pix, ddi, ivs)
        det_data_interval == JaxIntervalsGet(dd, ddi, ivs)
        weights_interval ==
            IF wi = None
            THEN [d \in DOMAIN pi |-> [k \in DOMAIN ivs.indices |->
                     [j \in Range0(max_length) |-> 1]]]
            ELSE JaxIntervalsGet(w, ddi, ivs)
    IN  [d \in DOMAIN ddi |-> [k \in DOMAIN ivs.indices |->
            scan_map_inner(md3, npix, g2l, pixels_interval[d][k],
                           weights_interval[d][k],
                           InnerWeightsNdim(wi, wndim),
                           det_data_interval[d][k], scale, zero, sub)]]

\* the padded batch of results, one row per (detector, interval)
new_det_data_interval(md, nm, npix, g2l, dd, ddi, pix, pi, w, wi, wndim, ivs, max_length, scale, zero, sub) ==
    LET md3 == Reshape(md, npix, nm)
        pixels_interval == JaxIntervalsGet(pix, pi, ivs)
        det_data_interval == JaxIntervalsGet(dd, ddi, ivs)
        weights_interval ==
            IF wi = None
            THEN [d \in DOMAIN pi |-> [k \in DOMAIN ivs.indices |->
                     [j \in Range0(max_length) |-> 1]]]
            ELSE JaxIntervalsGet(w, wi, ivs)
    IN  [d \in DOMAIN ddi |-> [k \in DOMAIN ivs.indices |->
            scan_map_inner(md3, npix, g2l, pixels_interval[d][k],
                           weights_interval[d][k],
                           InnerWeightsNdim(wi, wndim),
                           det_data_interval[d][k], scale, zero, sub)]]

\* scan_map_interval that passes the inclusive ends as if they were exclusive
scan_map_interval_InclusiveEnds(md, nm, npix, g2l, dd, ddi, pix, pi, w, wi, wndim, starts, ends, max_length, scale, zero, sub) ==
    LET ivs == JaxIntervals(starts, ends, max_length)
    IN  JaxIntervalsSet(dd, ddi, ivs,
            new_det_data_interval(md, nm, npix, g2l, dd, ddi, pix, pi, w, wi,
                                  wndim, ivs, max_length, scale, zero, sub))

\* scan_map_interval whose should_zero clears the whole timestream, not the
\* interval slices
scan_map_interval_ZeroesAll(md, nm, npix, g2l, dd, ddi, pix, pi, w, wi, wndim, starts, ends, max_length, scale, zero, sub) ==
    LET ivs == JaxIntervals(starts, [k \in DOMAIN ends |-> ends[k] + 1],
                            max_length)
        cleared == IF zero THEN [r \in DOMAIN dd |-> [s \in DOMAIN dd[r] |-> 0]]
                   ELSE dd
    IN  JaxIntervalsSet(cleared, ddi, ivs,
            new_det_data_interval(md, nm, npix, g2l, dd, ddi, pix, pi, w, wi,
                                  wndim, ivs, max_length, scale, zero, sub))

scan_map_interval(md, nm, npix, g2l, dd, ddi, pix, pi, w, wi, wndim, starts, ends, max_length, scale, zero, sub) ==
    LET ivs == JaxIntervals(starts, [k \in DOMAIN ends |-> ends[k] + 1],
                            max_length)
    IN  JaxIntervalsSet(dd, ddi, ivs,
            new_det_data_interval(md, nm, npix, g2l, dd, ddi, pix, pi, w, wi,
                                  wndim, ivs, max_length, scale, zero, sub))

\* a jit that donates the map buffer as well as det_data
donate_argnums_WithMap == {0, 4}

\* scan_map_interval = jax.jit(..., donate_argnums=[4]): the positions of the
\* arguments whose buffers the compiled call may consume
donate_argnums == {4}

\* the array the caller passed at position argnum, as it is after the compiled
\* call returned: a donated buffer is deleted, every other array is immutable
\* inside the kernel (names such as mapdata are rebound, never written)
ArgAfter(argnum, a) == IF argnum \in donate_argnums THEN None ELSE a

\* scan_map on timestream dd, pixels pix, weights w and interval set ivs,
\* with the other inputs of the state: the new timestream.  When tracing
\* scan_map_interval raises, det_data[:] is never assigned and dd is kept.
ScanOK(ivs) ==
    TraceOK(mapdata, nmap, npix_submap, det_data_index, pixels_index,
            weight_index, weights_ndim, compute_max_intervals_length(ivs))
\* scan_map that clears det_data in place before scan_map_interval is called
scan_map_ZeroesFirst(dd, pix, w, ivs, zero, sub) ==
    IF ScanOK(ivs)
    THEN scan_map_interval(mapdata, nmap, npix_submap, global2local, dd,
                           det_data_index, pix, pixels_index, w,
                           weight_index, weights_ndim, ivs.first, ivs.last,
                           compute_max_intervals_length(ivs), data_scale,
                           zero, sub)
    ELSE IF zero THEN [r \in DOMAIN dd |-> [s \in DOMAIN dd[r] |-> 0]] ELSE dd

scan_map(dd, pix, w, ivs, zero, sub) ==
    IF ScanOK(ivs)
    THEN scan_map_interval(mapdata, nmap, npix_submap, global2local, dd,
                           det_data_index, pix, pixels_index, w,
                           weight_index, weights_ndim, ivs.first, ivs.last,
                           compute_max_intervals_length(ivs), data_scale,
                           zero, sub)
    ELSE dd

\* ------------------------------------------------------------------ inputs
Arr(seq) == [i \in Range0(Len(seq)) |-> seq[i + 1]]
NoIntervals == [first |-> Arr(<<>>), last |-> Arr(<<>>)]
OneInterval(a, b) == [first |-> Arr(<<a>>), last |-> Arr(<<b>>)]

\* every ordered set of non-overlapping inclusive intervals of the samples
AllIntervals == {iv \in Samples \X Samples : iv[1] <= iv[2]}
Ordered(ivset) ==
    LET at(k) == CHOOSE iv \in ivset :
                    Cardinality({o \in ivset : o[1] < iv[1]}) = k
    IN  [first |-> [k \in Range0(Cardinality(ivset)) |-> at(k)[1]],
         last  |-> [k \in Range0(Cardinality(ivset)) |-> at(k)[2]]]
IntervalSets ==
    {Ordered(ivset) : ivset \in
        {c \in SUBSET AllIntervals :
            \A a, b \in c : a /= b => (a[2] < b[1] \/ b[2] < a[1])}}

\* the empty set, the whole row, and a short and a long interval
FewIntervalSets ==
    {NoIntervals, OneInterval(0, NSamp - 1),
     [first |-> Arr(<<0, 1>>), last |-> Arr(<<0, NSamp - 1>>)]}

\* pixel patterns over the geometry npix_submap = 2, global2local = [0,-1,1]:
\* 1 is owned (local submap 0), -1 is flagged, 3 is unowned, 4 is owned
\* (local submap 1)
PixCycle == Arr(<<1, -1, 3, 4>>)
PixPattern(kp) == [r \in Rows |-> [s \in Samples |-> PixCycle[(s + kp + r) % 4]]]
WVal(kw, r, s) == IF kw = 0 THEN 0 ELSE IF kw = 1 THEN 1 ELSE s + 1 + r
ScalarWeights(kw) == [r \in Rows |-> [s \in Samples |-> WVal(kw, r, s)]]
VectorWeights(kw, nm) ==
    [r \in Rows |-> [s \in Samples |-> [c \in Range0(nm) |->
        IF kw = 0 THEN 0 ELSE WVal(kw, r, s) + c]]]
DataPattern(kd) ==
    [r \in Rows |-> [s \in Samples |->
        IF kd = 0 THEN 0 ELSE IF kd = 1 THEN 1 ELSE s + 1 + 2 * r]]
MapRamp(n) == [i \in Range0(n) |-> i + 1]
DetCounts == {1, 2}

Start ==
    /\ pc = "ready"
    /\ det_data_orig = det_data
    /\ one_data = det_data
    /\ one_k = 0

\* the weights in one of the three forms the kernel accepts
WeightForm(form, kw, nm, idx) ==
    /\ form = "none"   => /\ weights = None /\ weights_ndim = 0
                          /\ weight_index = None /\ kw = 1
    /\ form = "scalar" => /\ weights = ScalarWeights(kw) /\ weights_ndim = 2
                          /\ weight_index = idx
    /\ form = "vector" => /\ weights = VectorWeights(kw, nm) /\ weights_ndim = 3
                          /\ weight_index = idx

\* one detector on row 0, every interval set, mode and weight form
InitScan ==
    /\ npix_submap = 2
    /\ global2local = Arr(<<0, -1, 1>>)
    /\ \E form \in {"none", "scalar", "vector"}, kw \in 0..2 :
          /\ nmap \in (IF form = "vector" THEN {1, 2} ELSE {1})
          /\ WeightForm(form, kw, nmap, Arr(<<0>>))
    /\ mapdata = MapRamp(4 * nmap)
    /\ \E kp \in 0..3 : pixels = PixPattern(kp)
    /\ det_data = DataPattern(2)
    /\ det_data_index = Arr(<<0>>)
    /\ pixels_index = Arr(<<0>>)
    /\ intervals \in IntervalSets
    /\ data_scale \in {1, 2}
    /\ should_zero \in BOOLEAN
    /\ should_subtract \in BOOLEAN
    /\ Start

\* one or two detectors, every assignment of rows to them
InitRows ==
    /\ npix_submap = 2
    /\ global2local = Arr(<<0, -1, 1>>)
    /\ \E ndet \in DetCounts :
          /\ det_data_index \in
                {f \in [Range0(ndet) -> Rows] :
                    \A a, b \in Range0(ndet) : f[a] = f[b] => a = b}
          /\ pixels_index \in [Range0(ndet) -> Rows]
          /\ \E form \in {"none", "scalar", "vector"},
                idx \in [Range0(ndet) -> Rows] :
                /\ form = "none" => idx = [d \in Range0(ndet) |-> 0]
                /\ nmap = (IF form = "vector" THEN 2 ELSE 1)
                /\ WeightForm(form, IF form = "none" THEN 1 ELSE 2, nmap, idx)
    /\ mapdata = MapRamp(4 * nmap)
    /\ pixels = PixPattern(0)
    /\ det_data = DataPattern(2)
    /\ intervals \in FewIntervalSets
    /\ data_scale = 1
    /\ should_zero \in BOOLEAN
    /\ should_subtract \in BOOLEAN
    /\ Start

\* the geometry of the scenarios: submaps of 4 pixels, the second of the two
\* global submaps unowned, pixels 0, 1, 5, unit weights, one map component
ScenarioPixels == [s \in Samples |-> IF s = 0 THEN 0 ELSE IF s = 1 THEN 1
                                     ELSE IF s = 2 THEN 5 ELSE -1]
InitScenario ==
    /\ npix_submap = 4
    /\ global2local = Arr(<<0, -1>>)
    /\ nmap = 1
    /\ mapdata = Arr(<<10, 20, 30, 40>>)
    /\ pixels = [r \in Rows |-> ScenarioPixels]
    /\ \E form \in {"none", "scalar", "vector"} :
          WeightForm(form, 1, 1, Arr(<<0>>))
    /\ \E kd \in 0..2 : det_data = DataPattern(kd)
    /\ det_data_index = Arr(<<0>>)
    /\ pixels_index = Arr(<<0>>)
    /\ intervals \in IntervalSets
    /\ data_scale \in {1, 2}
    /\ should_zero \in BOOLEAN
    /\ should_subtract \in BOOLEAN
    /\ Start

\* malformed geometry: a submap size that is not positive, a negative
\* component count, or row-index arrays of different lengths
InitMalformed ==
    /\ global2local = Arr(<<0, -1, 1>>)
    /\ mapdata = MapRamp(4)
    /\ pixels = PixPattern(0)
    /\ det_data = DataPattern(2)
    /\ intervals \in FewIntervalSets
    /\ data_scale = 1
    /\ should_zero \in BOOLEAN
    /\ should_subtract \in BOOLEAN
    /\ \E form \in {"none", "scalar", "vector"},
          ld \in DetCounts, lp \in DetCounts, lw \in DetCounts :
          /\ form = "none" => lw = ld
          /\ det_data_index = [d \in Range0(ld) |-> d]
          /\ pixels_index = [d \in Range0(lp) |-> 0]
          /\ WeightForm(form, 1, 1, [d \in Range0(lw) |-> 0])
          /\ \/ npix_submap \in {0, -2} /\ nmap = 1 /\ ld = lp /\ ld = lw
             \/ npix_submap = 2 /\ nmap \in {-1, -2} /\ ld = lp /\ ld = lw
             \/ npix_submap = 2 /\ nmap = 1 /\ (ld /= lp \/ ld /= lw)
    /\ Start

Init == InitScan \/ InitRows \/ InitScenario \/ InitMalformed

\* ----------------------------------------------------------------- actions
\* the arrays handed to the compiled scan_map_interval, in the order of its
\* positional arguments, as the caller finds them after the call; the static
\* arguments and the intervals are not buffers of the call
ArgsAfterCall ==
    /\ mapdata' = ArgAfter(0, mapdata)
    /\ global2local' = ArgAfter(3, global2local)
    /\ det_data_index' = ArgAfter(5, det_data_index)
    /\ pixels' = ArgAfter(6, pixels)
    /\ pixels_index' = ArgAfter(7, pixels_index)
    /\ weights' = ArgAfter(8, weights)
    /\ weight_index' = ArgAfter(9, weight_index)
    /\ UNCHANGED <<nmap, npix_submap, weights_ndim, intervals, data_scale,
                   should_zero, det_data_orig>>

\* scan_map(...) runs to completion and assigns det_data[:]
ScanMap ==
    /\ pc = "ready"
    /\ ScanOK(intervals)
    /\ det_data' = scan_map(det_data, pixels, weights, intervals,
                            should_zero, should_subtract)
    /\ pc' = "done"
    /\ ArgsAfterCall
    /\ UNCHANGED <<should_subtract, one_data, one_k>>

\* scan_map(...) raises while scan_map_interval is traced
ScanMapRaises ==
    /\ pc = "ready"
    /\ ~ScanOK(intervals)
    /\ det_data' = scan_map(det_data, pixels, weights, intervals,
                            should_zero, should_subtract)
    /\ pc' = "error"
    /\ UNCHANGED <<inputs, should_subtract, one_data, one_k>>

\* after an accumulating scan, the same inputs are scanned again with
\* should_subtract = True
ScanMapBack ==
    /\ pc = "done"
    /\ ~should_zero /\ ~should_subtract
    /\ det_data' = scan_map(det_data, pixels, weights, intervals, FALSE, TRUE)
    /\ pc' = "undone"
    /\ ArgsAfterCall
    /\ UNCHANGED <<should_subtract, one_data, one_k>>

\* the same scan, one invocation per interval, on the timestream one_data
ScanMapEach ==
    /\ one_k < Size(intervals.first)
    /\ LET iv == OneInterval(intervals.first[one_k], intervals.last[one_k])
       IN  /\ ScanOK(iv)
           /\ one_data' = scan_map(one_data, pixels, weights, iv,
                                   should_zero, should_subtract)
    /\ one_k' = one_k + 1
    /\ ArgsAfterCall
    /\ UNCHANGED <<should_subtract, det_data, pc>>

\* one invocation over all intervals, and the round trip after it
Next == ScanMap \/ ScanMapRaises \/ ScanMapBack

Spec == Init /\ [][Next]_vars

\* one invocation over all intervals beside one invocation per interval
NextEach == ScanMap \/ ScanMapRaises \/ ScanMapEach

SpecEach == Init /\ [][NextEach]_vars

\* ------------------------------------------------------- shared predicates
Dets == DOMAIN det_data_index
NIntervals == Size(intervals.first)
InInterval(k, s) == intervals.first[k] <= s /\ s <= intervals.last[k]
Real(s) == \E k \in DOMAIN intervals.first : InInterval(k, s)
Accumulate == ~should_zero /\ ~should_subtract
UnequalLengths ==
    \E a, b \in DOMAIN intervals.first :
        intervals.last[a] - intervals.first[a]
            /= intervals.last[b] - intervals.first[b]
Malformed ==
    \/ npix_submap <= 0
    \/ nmap < 0
    \/ Size(pixels_index) /= Size(det_data_index)
    \/ (weight_index /= None /\ Size(weight_index) /= Size(det_data_index))
InvalidPixel(p) == p < 0 \/ global2local[p \div npix_submap] < 0
\* the timestream value the combination starts from
Base(d, s) == IF should_zero THEN 0 ELSE det_data_orig[det_data_index[d]][s]
Changed == \E r \in Rows, s \in Samples : det_data[r][s] /= det_data_orig[r][s]

\* ---------------------------------------------------------------------- C1
\* C1: after a scan, every sample inside an interval whose pixel is negative
\* or falls in an unowned submap holds its base value (the projected value
\* is zero), so an accumulating scan leaves it unchanged; and a scan of
\* well-formed geometry raises no error.
C1_InvalidPixelInvariance ==
    /\ pc = "done" =>
          \A d \in Dets, s \in Samples :
              (Real(s) /\ InvalidPixel(pixels[pixels_index[d]][s])) =>
                  /\ det_data[det_data_index[d]][s] = Base(d, s)
                  /\ Accumulate => det_data[det_data_index[d]][s]
                                       = det_data_orig[det_data_index[d]][s]
    /\ pc = "error" => Malformed

\* an accumulating scan met a flagged and an unowned pixel and changed
\* another sample
C1_Witness ==
    /\ pc = "done" /\ Accumulate /\ Changed
    /\ \E d \in Dets, s, t \in Samples :
          /\ Real(s) /\ pixels[pixels_index[d]][s] < 0
          /\ Real(t) /\ pixels[pixels_index[d]][t] >= 0
          /\ InvalidPixel(pixels[pixels_index[d]][t])

\* ---------------------------------------------------------------------- C2
\* the weight of detector d, sample s, component c
WeightOf(d, s, c) ==
    IF weights_ndim = 2 THEN weights[weight_index[d]][s]
    ELSE weights[weight_index[d]][s][c]
\* the dot product of the map values of pixel p with the weights of (d, s)
DotProduct(d, s, p) ==
    LET md3 == Reshape(mapdata, npix_submap, nmap)
        l == global2local[p \div npix_submap]
    IN  FSum([c \in Range0(nmap) |->
                FMul(md3[l][p % npix_submap][c], WeightOf(d, s, c))], nmap)
Projected(d, s) ==
    FMul(data_scale, DotProduct(d, s, pixels[pixels_index[d]][s]))

\* C2: after a scan, every real sample with a valid pixel holds
\* base + sign * dataScale * SUM_c map[L, p mod submapSize, c] * weight[d, s, c].
C2_ProjectedValue ==
    (pc = "done" /\ weight_index /= None) =>
        \A d \in Dets, s \in Samples :
            (Real(s) /\ ~InvalidPixel(pixels[pixels_index[d]][s])) =>
                det_data[det_data_index[d]][s]
                    = FAdd(Base(d, s),
                           (IF should_subtract THEN -1 ELSE 1) * Projected(d, s))

\* ---------------------------------------------------------------------- C3
WeightValues == {0, 1, 2}
\* the weights with the weight(s) of sample t of row r replaced by v
WeightsWith(r, t, v) ==
    IF weights_ndim = 2 THEN [weights EXCEPT ![r][t] = v]
    ELSE [weights EXCEPT ![r][t] = [c \in Range0(nmap) |-> v]]
PixelsWith(r, t, p) == [pixels EXCEPT ![r][t] = p]

\* C3: the value a scan gives a real sample does not change when the pixel
\* or the weight of any other sample is changed.
C3_NoInterSampleDependency ==
    pc = "done" =>
        \A d \in Dets, s \in Samples, t \in Samples :
            (Real(s) /\ t /= s) =>
                /\ weight_index /= None =>
                      \A v \in WeightValues :
                          scan_map(det_data_orig, pixels,
                                   WeightsWith(weight_index[d], t, v),
                                   intervals, should_zero, should_subtract)
                                  [det_data_index[d]][s]
                              = det_data[det_data_index[d]][s]
                /\ \A p \in {-1, 0, 1} :
                      scan_map(det_data_orig,
                               PixelsWith(pixels_index[d], t, p), weights,
                               intervals, should_zero, should_subtract)
                              [det_data_index[d]][s]
                          = det_data[det_data_index[d]][s]

\* ---------------------------------------------------------------------- C4
\* the padded batch of results of the scan of the original timestream
Batch ==
    new_det_data_interval(mapdata, nmap, npix_submap, global2local,
        det_data_orig, det_data_index, pixels, pixels_index, weights,
        weight_index, weights_ndim,
        JaxIntervals(intervals.first,
                     [k \in DOMAIN intervals.last |-> intervals.last[k] + 1],
                     compute_max_intervals_length(intervals)),
        compute_max_intervals_length(intervals), data_scale, should_zero,
        should_subtract)

\* C4: after a scan, a timestream sample outside every interval (or on a row
\* of no detector) keeps its prior value, and a sample inside an interval
\* holds the batch result computed at its own position.
C4_PaddingNonInterference ==
    pc = "done" =>
        \A r \in Rows, s \in Samples :
            IF \E d \in Dets : det_data_index[d] = r /\ Real(s)
            THEN \A d \in Dets, k \in DOMAIN intervals.first :
                    (det_data_index[d] = r /\ InInterval(k, s)) =>
                        det_data[r][s] = Batch[d][k][s - intervals.first[k]]
            ELSE det_data[r][s] = det_data_orig[r][s]

\* a scan over intervals of unequal lengths changed the timestream and left
\* a sample outside the intervals
C4_Witness ==
    /\ pc = "done" /\ UnequalLengths /\ Changed
    /\ \E s \in Samples : ~Real(s)

\* ---------------------------------------------------------------------- C5
\* C5: one scan over all intervals and one scan per interval give every real
\* sample the same value.
C5_BatchingEquivalence ==
    (pc = "done" /\ one_k = NIntervals) =>
        \A d \in Dets, s \in Samples :
            Real(s) => det_data[det_data_index[d]][s]
                           = one_data[det_data_index[d]][s]

\* ---------------------------------------------------------------------- C6
\* C6 as stated: an accumulating scan followed by a subtracting scan of the
\* same inputs leaves every timestream value equal to its original value.
C6_RoundTripExact ==
    pc = "undone" => det_data = det_data_orig

\* the update term of every sample: the result of a zeroing, adding scan
UpdateOf(r, s) ==
    scan_map(det_data_orig, pixels, weights, intervals, TRUE, FALSE)[r][s]
Written(r, s) == Real(s) /\ \E d \in Dets : det_data_index[d] = r

\* C6 (amended): after an accumulating and then a subtracting scan of the
\* same inputs, a sample that is not written is unchanged, a written sample
\* whose intermediate sum (value + update) is a float is restored exactly,
\* and any other written sample differs from its original value by at most
\* the two rounding errors: half a unit in the last place of the rounded
\* intermediate sum plus half a unit in the last place of the final value.
C6_RoundTripRounded ==
    pc = "undone" =>
        \A r \in Rows, s \in Samples :
            IF ~Written(r, s) THEN det_data[r][s] = det_data_orig[r][s]
            ELSE LET mid == det_data_orig[r][s] + UpdateOf(r, s)
                 IN  /\ IsFloat(mid) => det_data[r][s] = det_data_orig[r][s]
                     /\ 2 * Abs(det_data[r][s] - det_data_orig[r][s])
                            <= Ulp(FlRound(mid)) + Ulp(det_data[r][s])

\* a round trip whose intermediate sum was rounded and that did not restore
\* the original value
C6_Witness ==
    /\ pc = "undone"
    /\ \E r \in Rows, s \in Samples :
          /\ Written(r, s)
          /\ ~IsFloat(det_data_orig[r][s] + UpdateOf(r, s))
          /\ det_data[r][s] /= det_data_orig[r][s]
    /\ \E r \in Rows, s \in Samples :
          /\ Written(r, s)
          /\ UpdateOf(r, s) /= 0
          /\ det_data[r][s] = det_data_orig[r][s]

\* ------------------------------------------------------------- C7 and C8
\* the inputs shared by scenarios A and B: one detector, one interval over
\* samples 0..2, pixels 0, 1, 5, one scalar weight 1 per sample, one map
\* component, submap 0 = [10, 20, 30, 40]
ScenarioInputs ==
    /\ npix_submap = 4
    /\ global2local = Arr(<<0, -1>>)
    /\ nmap = 1
    /\ mapdata = Arr(<<10, 20, 30, 40>>)
    /\ Size(det_data_index) = 1
    /\ intervals = OneInterval(0, 2)
    /\ weights_ndim = 2
    /\ \A s \in 0..2 : weights[weight_index[0]][s] = 1
    /\ pixels[pixels_index[0]][0] = 0
    /\ pixels[pixels_index[0]][1] = 1
    /\ pixels[pixels_index[0]][2] = 5
ResultIs(a, b, c) ==
    /\ det_data[det_data_index[0]][0] = a
    /\ det_data[det_data_index[0]][1] = b
    /\ det_data[det_data_index[0]][2] = c

\* C7: scenario A, accumulate mode, dataScale 1, initial timestream
\* [0, 0, 0], gives the timestream [10, 20, 0].
C7_ScenarioA ==
    (/\ pc = "done" /\ ScenarioInputs /\ Accumulate /\ data_scale = 1
     /\ \A s \in 0..2 : det_data_orig[det_data_index[0]][s] = 0)
        => ResultIs(10, 20, 0)

\* C8: scenario B, zero-then-assign mode, dataScale 2, any initial
\* timestream, gives the timestream [20, 40, 0].
C8_ScenarioB ==
    (/\ pc = "done" /\ ScenarioInputs /\ data_scale = 2
     /\ should_zero /\ ~should_subtract)
        => ResultIs(20, 40, 0)

\* ---------------------------------------------------------------------- C9
\* C9: a scan of well-formed inputs with an empty interval set raises no
\* error and leaves the whole timestream as it was, whatever the mode flags.
C9_EmptyIntervalSet ==
    (NIntervals = 0 /\ ~Malformed /\ pc /= "ready") =>
        pc /= "error" /\ det_data = det_data_orig

\* a zeroing scan with no interval returned over a timestream that holds
\* non-zero values on the row of a detector
C9_Witness ==
    /\ pc = "done" /\ NIntervals = 0 /\ should_zero
    /\ \E d \in Dets, s \in Samples : det_data[det_data_index[d]][s] /= 0

\* --------------------------------------------------------------------- C10
\* C10: a scan with a submap size that is not positive, a negative component
\* count or row-index arrays of different lengths ends in an error and
\* leaves the timestream unchanged.
C10_MalformedRejected ==
    (Malformed /\ pc /= "ready") =>
        pc = "error" /\ det_data = det_data_orig

\* a zeroing scan over a non-empty interval set was rejected
C10_Witness ==
    /\ pc = "error" /\ Malformed /\ should_zero /\ NIntervals > 0
    /\ \E d \in Dets, s \in Samples : det_data[det_data_index[d]][s] /= 0
\* ------------------------------------------------------------------- C11
\* C11: scan_map only reads the local map buffer: no step of any invocation,
\* whatever the mode flags and the pixels (invalid and unowned ones
\* included), changes a value of the map buffer, the pixel array, the weight
\* array, the global2local table or the three index arrays; det_data is the
\* only array written.
C11_OnlyTimestreamWritten ==
    [][/\ mapdata' = mapdata
       /\ pixels' = pixels
       /\ weights' = weights
       /\ global2local' = global2local
       /\ det_data_index' = det_data_index
       /\ pixels_index' = pixels_index
       /\ weight_index' = weight_index]_vars

\* a completed scan that wrote the timestream while an interval held an
\* invalid pixel and the map buffer is still the one that was passed
C11_Witness ==
    /\ pc = "done"
    /\ Changed
    /\ mapdata = MapRamp(Size(mapdata))
    /\ \E d \in Dets, s \in Samples :
           Real(s) /\ InvalidPixel(pixels[pixels_index[d]][s])

\* ------------------------------------------------------------------- C12
\* every pointing weight of every sample of the weight array is zero
AllWeightsZero ==
    /\ weight_index /= None
    /\ \A r \in DOMAIN weights : \A s \in DOMAIN weights[r] :
           IF weights_ndim = 2 THEN weights[r][s] = 0
           ELSE \A c \in DOMAIN weights[r][s] : weights[r][s][c] = 0

\* C12: zero-weight invariance: when every pointing weight is zero, the
\* projected value of every sample is zero whatever the map, the pixels and
\* data_scale are: after the scan (and after the subtracting scan that
\* follows an accumulating one) the timestream is unchanged everywhere,
\* except that should_zero sets the interval samples of the written rows to 0.
C12_ZeroWeightInvariance ==
    (pc \in {"done", "undone"} /\ AllWeightsZero) =>
        \A r \in Rows, s \in Samples :
            det_data[r][s] = IF should_zero /\ Written(r, s) THEN 0
                             ELSE det_data_orig[r][s]

\* a zero-weight scan with should_zero and data_scale 2 that cleared a
\* nonzero sample whose pixel selects a nonzero map value
C12_Witness ==
    /\ pc = "done"
    /\ AllWeightsZero
    /\ should_zero
    /\ data_scale = 2
    /\ \E d \in Dets, s \in Samples :
           /\ Real(s)
           /\ ~InvalidPixel(pixels[pixels_index[d]][s])
           /\ det_data_orig[det_data_index[d]][s] /= 0
           /\ det_data[det_data_index[d]][s] = 0
           /\ \A c \in Range0(nmap) :
                  GatherMap(Reshape(mapdata, npix_submap, nmap), npix_submap,
                            global2local, pixels[pixels_index[d]])[s][c] /= 0

\* ------------------------------------------------------------------- C13
\* the array whose only row is row
OneRow(row) == [i \in {0} |-> row]

\* the scan of the three rows that the index arrays name for detector d,
\* handed over as one-row arrays with no indirection left
RowScan(d) ==
    scan_map_interval(mapdata, nmap, npix_submap, global2local,
                      OneRow(det_data_orig[det_data_index[d]]), Arr(<<0>>),
                      OneRow(pixels[pixels_index[d]]), Arr(<<0>>),
                      IF weight_index = None THEN None
                      ELSE OneRow(weights[weight_index[d]]),
                      IF weight_index = None THEN None ELSE Arr(<<0>>),
                      weights_ndim, intervals.first, intervals.last,
                      compute_max_intervals_length(intervals), data_scale,
                      should_zero, should_subtract)[0]

\* C13: row indirection: after scan_map, for each detector position d, row
\* det_data_index[d] of the timestream is the scan of that row with row
\* pixels_index[d] of the pixels and row weight_index[d] of the weights,
\* whether or not the three row numbers agree, and every row that
\* det_data_index does not reference is unchanged.
C13_RowIndirection ==
    pc = "done" =>
        \A r \in Rows :
            IF \E d \in Dets : det_data_index[d] = r
            THEN \A d \in Dets : det_data_index[d] = r => det_data[r] = RowScan(d)
            ELSE det_data[r] = det_data_orig[r]

\* a completed scan of one detector whose pixel row is not its timestream
\* row and whose weight row is not its pixel row, which wrote the timestream
\* row and left a timestream row unreferenced
C13_Witness ==
    /\ pc = "done"
    /\ weight_index /= None
    /\ \E d \in Dets :
           /\ pixels_index[d] /= det_data_index[d]
           /\ weight_index[d] /= pixels_index[d]
           /\ det_data[det_data_index[d]] /= det_data_orig[det_data_index[d]]
    /\ \E r \in Rows : \A d \in Dets : det_data_index[d] /= r

=============================================================================
